---- MODULE Spec2Model ----
(***************************************************************************)
(* Model of the Bedrock CLI tool (bedrock_file_example/main.py): file      *)
(* classification and encoding, request assembly, remote invocation,       *)
(* output extraction and the exit behaviour of the command.                *)
(*                                                                         *)
(* File-side text (names, messages, media types, base64 data) is modelled  *)
(* with strings; response text is modelled as a sequence of one-character  *)
(* strings so that strip(), startswith(), the substring test and the       *)
(* regular expression are computed character by character.                 *)
(***************************************************************************)
EXTENDS Integers, Sequences, FiniteSets, TLC

\* ---------------------------------------------------------------- bounds
MaxFiles == 2
MaxBlocks == 3

\* ------------------------------------------------------ program constants
IMAGE_FORMATS == {".jpg", ".jpeg", ".png", ".gif", ".webp"}

DOCUMENT_FORMATS == {".pdf"}

TEXT_EXTRACTION_FORMATS == {".csv", ".doc", ".docx", ".xls", ".xlsx", ".html", ".txt", ".md"}

LongOutputLimit == 5000

None == "None"

\* The backtick character cannot be written in a TLA+ string literal; this
\* token stands for it wherever text is handled character by character.
Backtick == "<backtick>"

\* ------------------------------------------------------- small utilities
SetMin(S) == CHOOSE x \in S : \A y \in S : x <= y

\* str.lower() on the suffixes that occur in the inputs
Lower(s) ==
    CASE s = ".JPG" -> ".jpg"
      [] s = ".PNG" -> ".png"
      [] s = ".PDF" -> ".pdf"
      [] OTHER -> s

\* ext[1:] for the extensions of IMAGE_FORMATS (drop the leading dot)
DropDot(ext) ==
    CASE ext = ".jpg" -> "jpg"
      [] ext = ".jpeg" -> "jpeg"
      [] ext = ".png" -> "png"
      [] ext = ".gif" -> "gif"
      [] ext = ".webp" -> "webp"
      [] OTHER -> ext

\* ------------------------------------------------------------- base64
B64Alphabet ==
    << "A","B","C","D","E","F","G","H","I","J","K","L","M","N","O","P",
       "Q","R","S","T","U","V","W","X","Y","Z","a","b","c","d","e","f",
       "g","h","i","j","k","l","m","n","o","p","q","r","s","t","u","v",
       "w","x","y","z","0","1","2","3","4","5","6","7","8","9","+","/" >>

B64Char(n) == B64Alphabet[n + 1]

\* one group of 1, 2 or 3 bytes -> 4 characters, '=' padded
B64Group(b) ==
    LET b1 == b[1]
        b2 == IF Len(b) >= 2 THEN b[2] ELSE 0
        b3 == IF Len(b) >= 3 THEN b[3] ELSE 0
        n  == b1 * 65536 + b2 * 256 + b3
        c1 == B64Char(n \div 262144)
        c2 == B64Char((n \div 4096) % 64)
        c3 == IF Len(b) >= 2 THEN B64Char((n \div 64) % 64) ELSE "="
        c4 == IF Len(b) >= 3 THEN B64Char(n % 64) ELSE "="
    IN  c1 \o c2 \o c3 \o c4

RECURSIVE standard_b64encode(_)
standard_b64encode(bytes) ==
    IF Len(bytes) = 0 THEN ""
    ELSE IF Len(bytes) <= 3 THEN B64Group(bytes)
    ELSE B64Group(SubSeq(bytes, 1, 3)) \o standard_b64encode(SubSeq(bytes, 4, Len(bytes)))

\* ------------------------------------------------------ UTF-8 text read
AsciiPrintable ==
    << " ","!","\"","#","$","%","&","'","(",")","*","+",",","-",".","/",
       "0","1","2","3","4","5","6","7","8","9",":",";","<","=",">","?",
       "@","A","B","C","D","E","F","G","H","I","J","K","L","M","N","O",
       "P","Q","R","S","T","U","V","W","X","Y","Z","[","\\","]","^","_",
       Backtick,"a","b","c","d","e","f","g","h","i","j","k","l","m","n","o",
       "p","q","r","s","t","u","v","w","x","y","z","{","|","}","~" >>

Chr(b) == IF b = 10 THEN "\n" ELSE AsciiPrintable[b - 31]

\* The file contents of the model are ASCII or contain the byte 0xFF, which
\* occurs in no UTF-8 encoding: decoding succeeds exactly on the ASCII ones.
Utf8Decodable(bytes) == \A k \in 1..Len(bytes) : bytes[k] < 128

RECURSIVE Utf8Decode(_)
Utf8Decode(bytes) ==
    IF Len(bytes) = 0 THEN "" ELSE Chr(Head(bytes)) \o Utf8Decode(Tail(bytes))

\* ------------------------------------------------------------ encode_file
\* variant: the extension fallback without the special case of .jpg
ExtMime_NoJpegCase(ext) ==
    IF ext \in IMAGE_FORMATS THEN "image/" \o DropDot(ext)
    ELSE IF ext = ".pdf" THEN "application/pdf"
    ELSE "text/plain"

\* mime type chosen when mimetypes.guess_type returns None
ExtMime(ext) ==
    IF ext \in IMAGE_FORMATS
    THEN (IF ext # ".jpg" THEN "image/" \o DropDot(ext) ELSE "image/jpeg")
    ELSE IF ext = ".pdf" THEN "application/pdf"
    ELSE "text/plain"

\* f.guess is what mimetypes.guess_type returns for the path on this system
encode_file(f) ==
    IF ~f.readable THEN [raised |-> TRUE, base64_data |-> "", mime_type |-> None]
    ELSE [raised |-> FALSE,
          base64_data |-> standard_b64encode(f.data),
          mime_type |-> IF f.guess = None THEN ExtMime(Lower(f.suffix)) ELSE f.guess]

\* ----------------------------------------------------- extract_text_from_docx
IsSpace(c) == c \in {" ", "\t", "\n", "\r", "\f"}

\* paragraph.text.strip() is non-empty; paragraphs are short strings
ParagraphNonEmpty(p) == p \notin {"", " ", "\n", "  "}

RECURSIVE JoinLines(_)
JoinLines(parts) ==
    IF Len(parts) = 0 THEN ""
    ELSE IF Len(parts) = 1 THEN parts[1]
    ELSE parts[1] \o "\n" \o JoinLines(Tail(parts))

extract_text_from_docx(f) ==
    IF f.docx = "no_lib" THEN [raised |-> TRUE, error |-> "ImportError", text |-> ""]
    ELSE IF f.docx = "bad" \/ ~f.readable THEN [raised |-> TRUE, error |-> "Exception", text |-> ""]
    ELSE [raised |-> FALSE, error |-> None,
          text |-> JoinLines(SelectSeq(f.paragraphs, ParagraphNonEmpty))]

\* open(file_path, 'r', encoding='utf-8').read()
ReadText(f) ==
    IF ~f.readable THEN [raised |-> TRUE, error |-> "OSError", text |-> ""]
    ELSE IF ~Utf8Decodable(f.data) THEN [raised |-> TRUE, error |-> "UnicodeDecodeError", text |-> ""]
    ELSE [raised |-> FALSE, error |-> None, text |-> Utf8Decode(f.data)]

\* -------------------------------------------------------- content blocks
ImageBlock(media_type, data) ==
    [type |-> "image", media_type |-> media_type, data |-> data, text |-> ""]

DocumentBlock(data) ==
    [type |-> "document", media_type |-> "application/pdf", data |-> data, text |-> ""]

TextBlock(text) ==
    [type |-> "text", media_type |-> "", data |-> "", text |-> text]

ContentFrom(name, text_content) == "[Content from " \o name \o "]\n\n" \o text_content

\* str.strip() leaves nothing: enumerated over the whitespace-only strings
\* that the prompt inputs of the model contain
StripIsEmpty(s) == s \in {"", " ", "\n", " \n", "  "}

\* one iteration of the loop of process_files on the file f:
\* the blocks it appends (none or one), the line it echoes to stderr, and
\* whether an exception leaves process_files
process_file(f) ==
    LET ext == Lower(f.suffix) IN
    IF ~f.exists
    THEN [raised |-> FALSE, blocks |-> << >>, log |-> "Warning: File not found: " \o f.name]
    ELSE IF ext \in IMAGE_FORMATS
    THEN LET e == encode_file(f) IN
         IF e.raised
         THEN [raised |-> TRUE, blocks |-> << >>, log |-> "OSError"]
         ELSE [raised |-> FALSE,
               blocks |-> << ImageBlock(e.mime_type, e.base64_data) >>,
               log |-> "Added image: " \o f.name]
    ELSE IF ext \in DOCUMENT_FORMATS
    THEN LET e == encode_file(f) IN
         IF e.raised
         THEN [raised |-> TRUE, blocks |-> << >>, log |-> "OSError"]
         ELSE [raised |-> FALSE,
               blocks |-> << DocumentBlock(e.base64_data) >>,
               log |-> "Added PDF document: " \o f.name]
    ELSE IF ext \in TEXT_EXTRACTION_FORMATS
    THEN IF ext \in {".docx"}
         THEN LET t == extract_text_from_docx(f) IN
              IF t.raised
              THEN [raised |-> FALSE, blocks |-> << >>,
                    log |-> "Warning: Could not process file " \o f.name \o ": " \o t.error]
              ELSE [raised |-> FALSE,
                    blocks |-> << TextBlock(ContentFrom(f.name, t.text)) >>,
                    log |-> "Added text from DOCX: " \o f.name]
         ELSE LET t == ReadText(f) IN
              IF t.raised
              THEN [raised |-> FALSE, blocks |-> << >>,
                    log |-> "Warning: Could not process file " \o f.name \o ": " \o t.error]
              ELSE [raised |-> FALSE,
                    blocks |-> << TextBlock(ContentFrom(f.name, t.text)) >>,
                    log |-> "Added text file: " \o f.name]
    ELSE LET t == ReadText(f) IN
         IF t.raised
         THEN [raised |-> FALSE, blocks |-> << >>,
               log |-> "Warning: Could not process file " \o f.name \o ": " \o t.error]
         ELSE [raised |-> FALSE,
               blocks |-> << TextBlock(ContentFrom(f.name, t.text)) >>,
               log |-> "Added text file: " \o f.name]

\* request_body of call_bedrock_claude
RequestBody(content_blocks, max_tokens, temperature) ==
    [anthropic_version |-> "bedrock-2023-05-31",
     max_tokens |-> max_tokens,
     temperature |-> temperature,
     messages |-> << [role |-> "user", content |-> content_blocks] >>]

\* ------------------------------------------------------------ inputs
\* a file of the file system as the tool sees it: its name and suffix
\* (Path.name, Path.suffix), whether it exists, whether open() succeeds,
\* its bytes, what mimetypes.guess_type answers for it on this system, and
\* for a .docx its paragraphs and the state of the python-docx capability
File(name, suffix, exists, readable, data, guess, docx) ==
    [name |-> name, suffix |-> suffix, exists |-> exists, readable |-> readable,
     data |-> data, guess |-> guess, docx |-> docx,
     paragraphs |-> IF suffix = ".docx" THEN << "x", " ", "y" >> ELSE << >>]

\* a type a system MIME table other than the standard one can answer
AltMime(ext) ==
    IF ext \in {".jpg", ".jpeg"} THEN "image/pjpeg"
    ELSE IF ext = ".pdf" THEN "application/x-pdf"
    ELSE "image/x-" \o DropDot(ext)

BinaryNames ==
    { << "a.jpg", ".jpg" >>, << "b.jpeg", ".jpeg" >>, << "c.PNG", ".PNG" >>,
      << "d.gif", ".gif" >>, << "e.webp", ".webp" >>, << "f.pdf", ".pdf" >> }

TextNames == { << "g.txt", ".txt" >>, << "h.log", ".log" >> }

BytesHi == << 72, 105 >>

BytesInvalid == << 255 >>

BinaryFiles ==
    UNION { { File(n[1], n[2], FALSE, FALSE, << >>, None, "ok"),
              File(n[1], n[2], TRUE, FALSE, << >>, None, "ok"),
              File(n[1], n[2], TRUE, TRUE, BytesInvalid, None, "ok") }
            \cup { File(n[1], n[2], TRUE, TRUE, BytesHi, g, "ok") :
                     g \in {None, ExtMime(Lower(n[2])), AltMime(Lower(n[2]))} }
            : n \in BinaryNames }

TextFiles ==
    UNION { { File(n[1], n[2], FALSE, FALSE, << >>, None, "ok"),
              File(n[1], n[2], TRUE, FALSE, << >>, None, "ok"),
              File(n[1], n[2], TRUE, TRUE, BytesHi, None, "ok"),
              File(n[1], n[2], TRUE, TRUE, BytesInvalid, None, "ok") }
            : n \in TextNames }

DocxFiles ==
    { File("i.docx", ".docx", FALSE, FALSE, << >>, None, "ok"),
      File("i.docx", ".docx", TRUE, TRUE, << >>, None, "no_lib"),
      File("i.docx", ".docx", TRUE, TRUE, << >>, None, "bad"),
      File("i.docx", ".docx", TRUE, TRUE, << >>, None, "ok") }

AllFiles == BinaryFiles \cup TextFiles \cup DocxFiles

SeqsUpTo(S, n) == UNION { [1..k -> S] : k \in 0..n }

\* ------------------------------------------- text, character by character
Fence == << Backtick, Backtick, Backtick >>

\* '\n'.join(parts) on character sequences
RECURSIVE Join(_)
Join(parts) ==
    IF Len(parts) = 0 THEN << >>
    ELSE IF Len(parts) = 1 THEN parts[1]
    ELSE parts[1] \o << "\n" >> \o Join(Tail(parts))

RECURSIVE LStripIdx(_, _)
LStripIdx(t, k) == IF k > Len(t) \/ ~IsSpace(t[k]) THEN k ELSE LStripIdx(t, k + 1)

RECURSIVE RStripIdx(_, _)
RStripIdx(t, k) == IF k < 1 \/ ~IsSpace(t[k]) THEN k ELSE RStripIdx(t, k - 1)

\* str.strip()
Strip(t) == SubSeq(t, LStripIdx(t, 1), RStripIdx(t, Len(t)))

\* str.startswith(prefix)
StartsWith(t, prefix) ==
    /\ Len(t) >= Len(prefix)
    /\ \A k \in 1..Len(prefix) : t[k] = prefix[k]

FenceAt(t, k) ==
    /\ k + 2 <= Len(t)
    /\ t[k] = Backtick /\ t[k + 1] = Backtick /\ t[k + 2] = Backtick

\* the substring test: three backticks in a row occur in t
ContainsFence(t) == \E k \in 1..(Len(t) - 2) : FenceAt(t, k)

\* \w of the regular expression, on ASCII
IsWord(c) ==
    c \in { "a","b","c","d","e","f","g","h","i","j","k","l","m","n","o","p","q",
            "r","s","t","u","v","w","x","y","z","A","B","C","D","E","F","G","H",
            "I","J","K","L","M","N","O","P","Q","R","S","T","U","V","W","X","Y",
            "Z","0","1","2","3","4","5","6","7","8","9","_" }

\* position of the first fence at or after k, 0 when there is none
NextFence(t, k) ==
    LET S == { j \in k..(Len(t) - 2) : FenceAt(t, j) }
    IN  IF S = {} THEN 0 ELSE SetMin(S)

\* first position at or after k that holds no word character (Len(t)+1 if none)
WordRunEnd(t, k) ==
    LET S == { j \in k..Len(t) : ~IsWord(t[j]) }
    IN  IF S = {} THEN Len(t) + 1 ELSE SetMin(S)

\* An attempt to match  fence [\w]* \n (.*?) fence  with the opening fence
\* at position s.  The greedy [\w]* takes the whole run of word characters
\* (a shorter run would be followed by a word character, not by the
\* newline); the lazy (.*?) under DOTALL stops at the first later fence.
MatchAt(t, s) ==
    LET j == WordRunEnd(t, s + 3)
        c == j + 1
        e == IF j <= Len(t) /\ t[j] = "\n" THEN NextFence(t, c) ELSE 0
    IN  IF e = 0 THEN [ok |-> FALSE, group |-> << >>, end |-> s]
        ELSE [ok |-> TRUE, group |-> SubSeq(t, c, e - 1), end |-> e + 3]

\* re.findall(pattern, t, re.DOTALL) scanning from position k: the groups of
\* the leftmost non-overlapping matches
RECURSIVE FindAllFrom(_, _)
FindAllFrom(t, k) ==
    LET s == NextFence(t, k) IN
    IF s = 0 THEN << >>
    ELSE LET m == MatchAt(t, s) IN
         IF m.ok THEN << m.group >> \o FindAllFrom(t, m.end)
         ELSE FindAllFrom(t, s + 1)

FindAll(t) == FindAllFrom(t, 1)

\* --------------------------------------------------- extract_and_save_output
IsTextBlock(block) == block.type = "text"

BlockText(block) == block.text

\* the texts of the 'text' blocks, in order
RECURSIVE TextsOf(_)
TextsOf(blocks) ==
    IF Len(blocks) = 0 THEN << >>
    ELSE (IF IsTextBlock(Head(blocks)) THEN << BlockText(Head(blocks)) >> ELSE << >>)
         \o TextsOf(Tail(blocks))

CombinedText(response) == Join(TextsOf(response.content))

ShouldSave(combined_text) ==
    \/ ContainsFence(combined_text)
    \/ Len(combined_text) > LongOutputLimit
    \/ StartsWith(Strip(combined_text), << "<", "?", "x", "m", "l" >>)
    \/ StartsWith(Strip(combined_text), << "{" >>) \/ StartsWith(Strip(combined_text), << "[" >>)

CodeBlockName(file_count) == "output_" \o ToString(file_count) \o ".txt"

\* variant: the JSON test made before the fence test
PlannedWrites_JsonFirst(combined_text) ==
    LET text_stripped == Strip(combined_text) IN
    IF StartsWith(text_stripped, << "{" >>) \/ StartsWith(text_stripped, << "[" >>)
    THEN << [name |-> "output.json", content |-> combined_text,
             log |-> "Saved JSON output to: output.json"] >>
    ELSE IF ContainsFence(combined_text)
    THEN LET code_blocks == FindAll(combined_text)
         IN  [k \in 1..Len(code_blocks) |->
                 [name |-> CodeBlockName(k), content |-> Strip(code_blocks[k]),
                  log |-> "Saved code block to: " \o CodeBlockName(k)]]
    ELSE IF StartsWith(text_stripped, << "<", "?", "x", "m", "l" >>)
    THEN << [name |-> "output.xml", content |-> combined_text,
             log |-> "Saved XML output to: output.xml"] >>
    ELSE << [name |-> "output.txt", content |-> combined_text,
             log |-> "Saved output to: output.txt"] >>

\* the writes of the branch taken, in the order they are made
PlannedWrites(combined_text) ==
    LET text_stripped == Strip(combined_text) IN
    IF ContainsFence(combined_text)
    THEN LET code_blocks == FindAll(combined_text)
         IN  [k \in 1..Len(code_blocks) |->
                 [name |-> CodeBlockName(k), content |-> Strip(code_blocks[k]),
                  log |-> "Saved code block to: " \o CodeBlockName(k)]]
    ELSE IF StartsWith(text_stripped, << "{" >>) \/ StartsWith(text_stripped, << "[" >>)
    THEN << [name |-> "output.json", content |-> combined_text,
             log |-> "Saved JSON output to: output.json"] >>
    ELSE IF StartsWith(text_stripped, << "<", "?", "x", "m", "l" >>)
    THEN << [name |-> "output.xml", content |-> combined_text,
             log |-> "Saved XML output to: output.xml"] >>
    ELSE << [name |-> "output.txt", content |-> combined_text,
             log |-> "Saved output to: output.txt"] >>

\* variant: the output directory is not tested before saving
extract_and_save_output_IgnoreDir(response, output_dir, fail_at) ==
    LET combined_text == CombinedText(response)
        should_save == ShouldSave(combined_text)
    IN  IF should_save
        THEN IF fail_at = 0
             THEN [raised |-> TRUE, mkdir |-> FALSE, writes |-> << >>, returned |-> << >>]
             ELSE LET w == PlannedWrites(combined_text) IN
                  IF fail_at \in 1..Len(w)
                  THEN [raised |-> TRUE, mkdir |-> TRUE,
                        writes |-> SubSeq(w, 1, fail_at - 1), returned |-> << >>]
                  ELSE [raised |-> FALSE, mkdir |-> TRUE,
                        writes |-> w, returned |-> combined_text]
        ELSE [raised |-> FALSE, mkdir |-> FALSE, writes |-> << >>, returned |-> combined_text]

\* extract_and_save_output(response, output_dir) in an environment where
\* mkdir raises (fail_at = 0), the fail_at-th write_text raises
\* (fail_at >= 1) or nothing raises (any other value): the directory
\* creation and the writes that took effect, the lines echoed, and either
\* the text returned or the exception
extract_and_save_output(response, output_dir, fail_at) ==
    LET combined_text == CombinedText(response)
        should_save == ShouldSave(combined_text)
    IN  IF should_save /\ output_dir # None
        THEN IF fail_at = 0
             THEN [raised |-> TRUE, mkdir |-> FALSE, writes |-> << >>, returned |-> << >>]
             ELSE LET w == PlannedWrites(combined_text) IN
                  IF fail_at \in 1..Len(w)
                  THEN [raised |-> TRUE, mkdir |-> TRUE,
                        writes |-> SubSeq(w, 1, fail_at - 1), returned |-> << >>]
                  ELSE [raised |-> FALSE, mkdir |-> TRUE,
                        writes |-> w, returned |-> combined_text]
        ELSE [raised |-> FALSE, mkdir |-> FALSE, writes |-> << >>, returned |-> combined_text]

\* ------------------------------------------------------- response inputs
ResponseText(t) == [type |-> "text", text |-> t]

\* a block of another type: it carries no text that is consumed
OtherBlock == [type |-> "tool_use", text |-> << >>]

\* one character short of the long-output limit
Pad == [k \in 1..(LongOutputLimit - 1) |-> "a"]

Pieces ==
    { << >>,
      << "a" >>,
      Fence,
      Fence \o << "c", "+" >>,
      Fence \o << "p", "y", "\n", "b", " ", "\n" >> \o Fence,
      << " ", "{" >>,
      << "[" >>,
      << "<", "?", "x", "m", "l" >> }

ResponseBlocks == { ResponseText(t) : t \in Pieces } \cup { OtherBlock }

Usage(present) ==
    [present |-> present,
     input_tokens |-> IF present THEN 7 ELSE 0,
     output_tokens |-> IF present THEN 3 ELSE 0]

\* responses whose text is short
ShortResponses ==
    { [content |-> c, usage |-> Usage(TRUE)] : c \in SeqsUpTo(ResponseBlocks, MaxBlocks) }

\* responses whose text begins with the long run: at, just below and above
\* the long-output limit
LongResponses ==
    { [content |-> << ResponseText(Pad) >> \o c, usage |-> Usage(TRUE)] :
        c \in SeqsUpTo(ResponseBlocks, MaxBlocks - 1) }

Responses == ShortResponses \cup LongResponses

OutputDirs == { None, "./output" }

\* inputs of the whole-command specification
CliPromptFiles ==
    { [exists |-> TRUE, readable |-> TRUE, content |-> "P"],
      [exists |-> TRUE, readable |-> TRUE, content |-> " \n"],
      [exists |-> TRUE, readable |-> TRUE, content |-> ""],
      [exists |-> TRUE, readable |-> FALSE, content |-> ""],
      [exists |-> FALSE, readable |-> FALSE, content |-> ""] }

CliFiles ==
    { File("a.jpg", ".jpg", TRUE, TRUE, BytesHi, None, "ok"),
      File("f.pdf", ".pdf", TRUE, FALSE, << >>, None, "ok"),
      File("g.txt", ".txt", FALSE, FALSE, << >>, None, "ok"),
      File("g.txt", ".txt", TRUE, TRUE, BytesInvalid, None, "ok") }

CliResponses ==
    { [content |-> << ResponseText(<< "a" >>) >>, usage |-> Usage(TRUE)],
      [content |-> << ResponseText(Fence \o << "\n", "a", "\n" >> \o Fence),
                      ResponseText(Fence \o << "\n", "b", "\n" >> \o Fence) >>,
       usage |-> Usage(TRUE)],
      [content |-> << OtherBlock, ResponseText(<< "{", "}" >>) >>, usage |-> Usage(FALSE)],
      [content |-> << >>, usage |-> Usage(FALSE)] }

\* ------------------------------------------------------------------ state
VARIABLES
    pc,            \* position of the run
    prompt_file,   \* the prompt file: whether it exists and can be read, and its text
    prompt,        \* the prompt once loaded
    files,         \* the input files, in command-line order
    output_dir,    \* output_path of cli: None under --no-save-output
    idx,           \* index of the next file of the loop of process_files
    file_blocks,   \* content_blocks of process_files
    request,       \* the requests built (at most one)
    calls,         \* history: number of invoke_model calls made
    invoke_ok,     \* history: invoke_model returned a response that parsed
    response,      \* response_body
    returned,      \* extract_and_save_output has returned
    text_output,   \* the value it returned
    fs,            \* files of the output directory: name -> content
    dir_created,   \* output_dir.mkdir has succeeded
    stdout,        \* lines echoed to stdout
    stderr,        \* lines echoed to stderr
    exit_code,     \* exit status once the run has ended, None before
    raised         \* history: the step at which an exception was raised, None if none

vars == << pc, prompt_file, prompt, files, output_dir, idx, file_blocks,
           request, calls, invoke_ok, response, returned, text_output, fs,
           dir_created, stdout, stderr, exit_code, raised >>

DefaultMaxTokens == 4096

RuleWidth == 80

RECURSIVE Repeat(_, _)
Repeat(str, n) == IF n = 0 THEN "" ELSE str \o Repeat(str, n - 1)

\* "=" * 80
Rule == Repeat("=", RuleWidth)

DefaultTemperature == 1

EmptyDir == [n \in {} |-> << >>]

NoResponse == [content |-> << >>, usage |-> Usage(FALSE)]

\* Path.write_text: create or overwrite
WriteText(dir, name, content) ==
    [n \in (DOMAIN dir) \cup {name} |-> IF n = name THEN content ELSE dir[n]]

RECURSIVE ApplyWrites(_, _)
ApplyWrites(dir, writes) ==
    IF Len(writes) = 0 THEN dir
    ELSE ApplyWrites(WriteText(dir, Head(writes).name, Head(writes).content), Tail(writes))

\* the state at the start of cli
Init ==
    /\ pc = "parse_args"
    /\ prompt_file \in CliPromptFiles
    /\ prompt = ""
    /\ files \in SeqsUpTo(CliFiles, MaxFiles)
    /\ output_dir \in OutputDirs
    /\ idx = 1
    /\ file_blocks = << >>
    /\ request = << >>
    /\ calls = 0
    /\ invoke_ok = FALSE
    /\ response = NoResponse
    /\ returned = FALSE
    /\ text_output = << >>
    /\ fs = EmptyDir
    /\ dir_created = FALSE
    /\ stdout = << >>
    /\ stderr = << >>
    /\ exit_code = None
    /\ raised = None

\* variant: the handler echoes the error but the command returns normally
Abort_ExitZero(step) ==
    /\ pc' = "exited"
    /\ stderr' = Append(stderr, "Error: " \o step)
    /\ exit_code' = "0"
    /\ raised' = step

\* except Exception as e: echo the error, sys.exit(1)
Abort(step) ==
    /\ pc' = "exited"
    /\ stderr' = Append(stderr, "Error: " \o step)
    /\ exit_code' = "1"
    /\ raised' = step

\* the click options of cli: --prompt-file and every --file are declared
\* click.Path(exists=True), so a path that does not exist is a usage error
\* (an Error line on stderr, status 2) and the body of cli does not run
ParseArgs ==
    /\ pc = "parse_args"
    /\ IF prompt_file.exists /\ \A k \in 1..Len(files) : files[k].exists
       THEN pc' = "read_prompt" /\ UNCHANGED << stderr, exit_code, raised >>
       ELSE /\ pc' = "exited"
            /\ stderr' = Append(stderr, "Error: parse_args")
            /\ exit_code' = "2"
            /\ raised' = "parse_args"
    /\ UNCHANGED << prompt_file, prompt, files, output_dir, idx, file_blocks, request,
                    calls, invoke_ok, response, returned, text_output, fs,
                    dir_created, stdout >>

\* cli: read the prompt file, reject an empty prompt
ReadPrompt ==
    /\ pc = "read_prompt"
    /\ IF ~prompt_file.readable
       THEN Abort("read_prompt") /\ UNCHANGED prompt
       ELSE /\ prompt' = prompt_file.content
            /\ IF StripIsEmpty(prompt_file.content)
               THEN /\ pc' = "exited"
                    /\ stderr' = Append(stderr, "Error: Prompt file is empty")
                    /\ exit_code' = "1"
                    /\ UNCHANGED raised
               ELSE /\ pc' = "create_client"
                    /\ stderr' = Append(stderr, "Loaded prompt from: prompt_file")
                    /\ UNCHANGED << exit_code, raised >>
    /\ UNCHANGED << prompt_file, files, output_dir, idx, file_blocks, request,
                    calls, invoke_ok, response, returned, text_output, fs,
                    dir_created, stdout >>

\* call_bedrock_claude: boto3 session and client; may raise (unknown profile)
CreateClient ==
    /\ pc = "create_client"
    /\ \E ok \in BOOLEAN :
         IF ok
         THEN pc' = "process_files" /\ UNCHANGED << stderr, exit_code, raised >>
         ELSE Abort("create_client")
    /\ UNCHANGED << prompt_file, prompt, files, output_dir, idx, file_blocks,
                    request, calls, invoke_ok, response, returned, text_output, fs,
                    dir_created, stdout >>

\* process_files: one iteration of the loop over file_paths
ProcessFile ==
    /\ pc = "process_files"
    /\ idx <= Len(files)
    /\ LET r == process_file(files[idx]) IN
       IF r.raised
       THEN /\ Abort("process_files")
            /\ UNCHANGED << idx, file_blocks >>
       ELSE /\ file_blocks' = file_blocks \o r.blocks
            /\ stderr' = Append(stderr, r.log)
            /\ idx' = idx + 1
            /\ UNCHANGED << pc, exit_code, raised >>
    /\ UNCHANGED << prompt_file, prompt, files, output_dir, request, calls, invoke_ok,
                    response, returned, text_output, fs, dir_created, stdout >>

\* variant: the prompt block is put before the file blocks
BuildRequest_PromptFirst ==
    /\ pc = "process_files"
    /\ idx > Len(files)
    /\ LET content_blocks == << TextBlock(prompt) >> \o file_blocks IN
       request' = << RequestBody(content_blocks, DefaultMaxTokens, DefaultTemperature) >>
    /\ stderr' = Append(stderr, "Calling Claude Opus 4.5 on Bedrock...")
    /\ pc' = "invoke"
    /\ UNCHANGED << prompt_file, prompt, files, output_dir, idx, file_blocks,
                    calls, invoke_ok, response, returned, text_output, fs,
                    dir_created, stdout, exit_code, raised >>

\* call_bedrock_claude: process_files has returned; extend the content with
\* the file blocks, append the prompt, build the request body
BuildRequest ==
    /\ pc = "process_files"
    /\ idx > Len(files)
    /\ LET content_blocks == Append(file_blocks, TextBlock(prompt)) IN
       request' = << RequestBody(content_blocks, DefaultMaxTokens, DefaultTemperature) >>
    /\ stderr' = Append(stderr, "Calling Claude Opus 4.5 on Bedrock...")
    /\ pc' = "invoke"
    /\ UNCHANGED << prompt_file, prompt, files, output_dir, idx, file_blocks,
                    calls, invoke_ok, response, returned, text_output, fs,
                    dir_created, stdout, exit_code, raised >>

\* variant: a failed call is swallowed and the run goes on with an empty response
InvokeModel_ContinueOnError ==
    /\ pc = "invoke"
    /\ calls' = calls + 1
    /\ \/ /\ pc' = "extract"
          /\ stderr' = Append(stderr, "Error: invoke_model")
          /\ UNCHANGED << response, invoke_ok, exit_code, raised >>
       \/ /\ Abort("parse_response")
          /\ UNCHANGED << response, invoke_ok >>
       \/ /\ response' \in CliResponses
          /\ invoke_ok' = TRUE
          /\ pc' = "extract"
          /\ UNCHANGED << stderr, exit_code, raised >>
    /\ UNCHANGED << prompt_file, prompt, files, output_dir, idx, file_blocks,
                    request, returned, text_output, fs, dir_created, stdout >>

\* call_bedrock_claude: the single invoke_model call and the parsing of its
\* body; either may raise
InvokeModel ==
    /\ pc = "invoke"
    /\ calls' = calls + 1
    /\ \/ /\ Abort("invoke_model")
          /\ UNCHANGED << response, invoke_ok >>
       \/ /\ Abort("parse_response")
          /\ UNCHANGED << response, invoke_ok >>
       \/ /\ response' \in CliResponses
          /\ invoke_ok' = TRUE
          /\ pc' = "extract"
          /\ UNCHANGED << stderr, exit_code, raised >>
    /\ UNCHANGED << prompt_file, prompt, files, output_dir, idx, file_blocks,
                    request, returned, text_output, fs, dir_created, stdout >>

\* extract_and_save_output, with the failure the file system may produce
ExtractAndSaveOutput ==
    /\ pc = "extract"
    /\ \E fail_at \in {-1} \cup (0..MaxBlocks) :
         LET r == extract_and_save_output(response, output_dir, fail_at) IN
         /\ dir_created' = (dir_created \/ r.mkdir)
         /\ fs' = ApplyWrites(fs, r.writes)
         /\ IF r.raised
            THEN /\ pc' = "exited"
                 /\ stderr' = Append(stderr \o [k \in 1..Len(r.writes) |-> r.writes[k].log],
                                     "Error: write_output")
                 /\ exit_code' = "1"
                 /\ raised' = "write_output"
                 /\ UNCHANGED << returned, text_output >>
            ELSE /\ returned' = TRUE
                 /\ text_output' = r.returned
                 /\ stderr' = stderr \o [k \in 1..Len(r.writes) |-> r.writes[k].log]
                 /\ pc' = "display"
                 /\ UNCHANGED << exit_code, raised >>
    /\ UNCHANGED << prompt_file, prompt, files, output_dir, idx, file_blocks,
                    request, calls, invoke_ok, response, stdout >>

\* cli: echo the banner and the text to stdout
Display ==
    /\ pc = "display"
    /\ stdout' = stdout \o << "\n" \o Rule, "CLAUDE'S RESPONSE:", Rule \o "\n", text_output >>
    /\ pc' = "usage"
    /\ UNCHANGED << prompt_file, prompt, files, output_dir, idx, file_blocks,
                    request, calls, invoke_ok, response, returned, text_output, fs,
                    dir_created, stderr, exit_code, raised >>

\* cli: echo the token usage when present; the command returns, status 0
ShowUsage ==
    /\ pc = "usage"
    /\ stderr' = IF response.usage.present
                 THEN stderr \o << "\n" \o Rule,
                                   "Input tokens: " \o ToString(response.usage.input_tokens),
                                   "Output tokens: " \o ToString(response.usage.output_tokens),
                                   Rule >>
                 ELSE stderr
    /\ pc' = "exited"
    /\ exit_code' = "0"
    /\ UNCHANGED << prompt_file, prompt, files, output_dir, idx, file_blocks,
                    request, calls, invoke_ok, response, returned, text_output, fs,
                    dir_created, stdout, raised >>

Next ==
    \/ ParseArgs
    \/ ReadPrompt
    \/ CreateClient
    \/ ProcessFile
    \/ BuildRequest
    \/ InvokeModel
    \/ ExtractAndSaveOutput
    \/ Display
    \/ ShowUsage

Spec == Init /\ [][Next]_vars

\* ---- process_files and the request assembly on a wide range of files
InitFiles ==
    /\ pc = "process_files"
    /\ prompt_file = [exists |-> TRUE, readable |-> TRUE, content |-> "P"]
    /\ prompt = "P"
    /\ files \in SeqsUpTo(AllFiles, MaxFiles)
    /\ output_dir = "./output"
    /\ idx = 1
    /\ file_blocks = << >>
    /\ request = << >>
    /\ calls = 0
    /\ invoke_ok = FALSE
    /\ response = NoResponse
    /\ returned = FALSE
    /\ text_output = << >>
    /\ fs = EmptyDir
    /\ dir_created = FALSE
    /\ stdout = << >>
    /\ stderr = << "Loaded prompt from: prompt_file" >>
    /\ exit_code = None
    /\ raised = None

NextFiles == ProcessFile \/ BuildRequest

SpecFiles == InitFiles /\ [][NextFiles]_vars

\* ---- extract_and_save_output on a wide range of responses
InitExtract ==
    /\ pc = "extract"
    /\ prompt_file = [exists |-> TRUE, readable |-> TRUE, content |-> "P"]
    /\ prompt = "P"
    /\ files = << >>
    /\ output_dir \in OutputDirs
    /\ idx = 1
    /\ file_blocks = << >>
    /\ request = << RequestBody(<< TextBlock("P") >>, DefaultMaxTokens, DefaultTemperature) >>
    /\ calls = 1
    /\ invoke_ok = TRUE
    /\ response \in Responses
    /\ returned = FALSE
    /\ text_output = << >>
    /\ fs = EmptyDir
    /\ dir_created = FALSE
    /\ stdout = << >>
    /\ stderr = << "Loaded prompt from: prompt_file", "Calling Claude Opus 4.5 on Bedrock..." >>
    /\ exit_code = None
    /\ raised = None

NextExtract == ExtractAndSaveOutput

SpecExtract == InitExtract /\ [][NextExtract]_vars

\* ================================================================ claims
\* ---- definitions the statements below are phrased with

\* the file yields a block: it exists and its read, decode or extraction succeeds
Produces(f) ==
    /\ f.exists
    /\ f.readable
    /\ Lower(f.suffix) \notin (IMAGE_FORMATS \cup DOCUMENT_FORMATS) =>
         IF Lower(f.suffix) = ".docx" THEN f.docx = "ok" ELSE Utf8Decodable(f.data)

\* indices of the files that yield a block, in input order
ProducingIndices(fs_) == SelectSeq([k \in 1..Len(fs_) |-> k], LAMBDA k : Produces(fs_[k]))

\* the media types of the documented mapping table
DocumentedImageMime ==
    [e \in IMAGE_FORMATS |->
        CASE e = ".jpg" -> "image/jpeg"
          [] e = ".jpeg" -> "image/jpeg"
          [] e = ".png" -> "image/png"
          [] e = ".gif" -> "image/gif"
          [] e = ".webp" -> "image/webp"]

RequestContent == request[1].messages[1].content

\* C1: the content of the request built is exactly the blocks of the files
\* that were processed successfully, in input order and with the skipped
\* files left out, followed by one final text block holding the prompt.
C1_RequestContent ==
    request # << >> =>
        LET c == RequestContent
            p == ProducingIndices(files)
        IN  /\ Len(c) = Len(p) + 1
            /\ c[Len(c)] = TextBlock(prompt)
            /\ \A k \in 1..Len(p) : c[k] = process_file(files[p[k]]).blocks[1]

C1_Witness ==
    /\ request # << >>
    /\ Len(files) = 2
    /\ Len(RequestContent) = 3
    /\ RequestContent[1].type = "image"
    /\ RequestContent[2].type = "text"
    /\ RequestContent[3] = TextBlock("P")

\* C2: process_files never aborts the batch because of one file: no
\* exception leaves it, every path is visited before it returns, and the
\* files visited so far contributed one block each except the missing and
\* failing ones, which contributed none.
C2_NeverAborts ==
    /\ raised # "process_files"
    /\ pc = "invoke" => idx = Len(files) + 1
    /\ Len(file_blocks) = Cardinality({ k \in 1..(idx - 1) : Produces(files[k]) })

\* C9 as stated: a step of process_files on an existing readable image file
\* appends exactly one image block whose media type is the one of the
\* documented table, and on a .pdf exactly one document block of type
\* application/pdf, whatever MIME detection answers.
C9_MediaTypeFromTable ==
    [][ (idx' = idx + 1 /\ files[idx].exists /\ files[idx].readable) =>
          LET f == files[idx]
              ext == Lower(f.suffix)
              last == file_blocks'[Len(file_blocks')]
          IN  /\ ext \in IMAGE_FORMATS =>
                   /\ Len(file_blocks') = Len(file_blocks) + 1
                   /\ last.type = "image"
                   /\ last.media_type = DocumentedImageMime[ext]
              /\ ext = ".pdf" =>
                   /\ Len(file_blocks') = Len(file_blocks) + 1
                   /\ last.type = "document"
                   /\ last.media_type = "application/pdf" ]_vars

\* C9 amended: a step of process_files on an existing readable image file
\* appends exactly one image block whose media type is the answer of MIME
\* detection when there is one and the type of the documented table when
\* detection is undetermined; on a .pdf it appends exactly one document
\* block of type application/pdf whatever detection answers.
C9_MediaTypeDetectedElseTable ==
    [][ (idx' = idx + 1 /\ files[idx].exists /\ files[idx].readable) =>
          LET f == files[idx]
              ext == Lower(f.suffix)
              last == file_blocks'[Len(file_blocks')]
          IN  /\ ext \in IMAGE_FORMATS =>
                   /\ Len(file_blocks') = Len(file_blocks) + 1
                   /\ last.type = "image"
                   /\ last.media_type =
                        IF f.guess # None THEN f.guess ELSE DocumentedImageMime[ext]
              /\ ext = ".pdf" =>
                   /\ Len(file_blocks') = Len(file_blocks) + 1
                   /\ last.type = "document"
                   /\ last.media_type = "application/pdf" ]_vars

C9_Witness ==
    /\ idx = 3
    /\ files[1].name = "a.jpg" /\ files[1].readable /\ files[1].guess = None
    /\ files[2].name = "f.pdf" /\ files[2].readable /\ files[2].guess = "application/x-pdf"
    /\ Len(file_blocks) = 2
    /\ file_blocks[1].media_type = "image/jpeg"
    /\ file_blocks[2].media_type = "application/pdf"

\* ---- the response text and the names of the files written
ResponseTextOf == CombinedText(response)

Written == DOMAIN fs

IsJsonLike(t) == StartsWith(Strip(t), << "{" >>) \/ StartsWith(Strip(t), << "[" >>)

IsXmlLike(t) == StartsWith(Strip(t), << "<", "?", "x", "m", "l" >>)

\* C3: a response that is persisted is persisted by exactly one rule, the
\* first that matches: a fence marker gives numbered files only; else a
\* JSON-looking text gives output.json only, verbatim; else an XML-looking
\* text gives output.xml only, verbatim; else output.txt only, verbatim.
C3_OneRuleByPrecedence ==
    pc # "extract" =>
        LET t == ResponseTextOf
            only(n) == /\ Written \subseteq {n}
                       /\ (returned /\ dir_created) => Written = {n}
                       /\ \A w \in Written : fs[w] = t
        IN  IF ContainsFence(t)
            THEN \A w \in Written : \E k \in 1..Cardinality(Written) : w = CodeBlockName(k)
            ELSE IF IsJsonLike(t) THEN only("output.json")
            ELSE IF IsXmlLike(t) THEN only("output.xml")
            ELSE only("output.txt")

C3_Witness ==
    /\ returned /\ dir_created
    /\ ContainsFence(ResponseTextOf)
    /\ IsJsonLike(ResponseTextOf)
    /\ Written = { "output_1.txt" }

\* C4: with persistence enabled and no file-system failure, something is
\* written if and only if the persistence trigger holds, and no directory
\* is created when it does not hold.
C4_WritesIffTriggered ==
    (returned /\ output_dir # None) =>
        /\ (Written # {}) <=> ShouldSave(ResponseTextOf)
        /\ ~ShouldSave(ResponseTextOf) => ~dir_created

\* the fenced blocks of a text: the spans delimited by a fence marker and
\* the next one, taken in pairs from the left; the inner content of a
\* block is what follows the line of its opening marker (the language hint)
InnerContent(span) ==
    LET nl == { k \in 1..Len(span) : span[k] = "\n" }
    IN  IF nl = {} THEN span ELSE SubSeq(span, SetMin(nl) + 1, Len(span))

RECURSIVE FencedBlocksFrom(_, _)
FencedBlocksFrom(t, k) ==
    LET s == NextFence(t, k) IN
    IF s = 0 THEN << >>
    ELSE LET e == NextFence(t, s + 3) IN
         IF e = 0 THEN << >>
         ELSE << InnerContent(SubSeq(t, s + 3, e - 1)) >> \o FencedBlocksFrom(t, e + 3)

FencedBlocks(t) == FencedBlocksFrom(t, 1)

\* C5: for a text with a fence marker, persistence enabled and no
\* file-system failure, the files written are output_1.txt .. output_n.txt
\* for the n fenced blocks of the text, and output_i.txt holds the inner
\* content of the i-th block.
C5_OneFilePerFencedBlock ==
    (returned /\ output_dir # None /\ ContainsFence(ResponseTextOf)) =>
        LET b == FencedBlocks(ResponseTextOf) IN
        /\ Written = { CodeBlockName(k) : k \in 1..Len(b) }
        /\ \A k \in 1..Len(b) : fs[CodeBlockName(k)] = Strip(b[k])

\* C6: once extract_and_save_output is over, the newline-joined text of the
\* response has been returned, whatever happened to persistence.
C6_TextAlwaysReturned ==
    pc # "extract" => (returned /\ text_output = Join(TextsOf(response.content)))

\* C10: with persistence disabled no directory is created and no file is
\* written for any response, the text is returned, and the text returned
\* is the joined text of the response as it is with persistence enabled.
C10_DisabledWritesNothing ==
    /\ (pc # "extract" /\ output_dir = None) =>
           /\ Written = {}
           /\ ~dir_created
           /\ returned
    /\ returned => text_output = Join(TextsOf(response.content))

C10_Witness ==
    /\ output_dir = None
    /\ returned
    /\ ContainsFence(text_output)
    /\ Len(FindAll(text_output)) > 0

\* ---- the whole command
ErrorLines ==
    { "Error: Prompt file is empty" } \cup
    { "Error: " \o step : step \in { "parse_args", "read_prompt", "create_client", "process_files",
                                     "invoke_model", "parse_response", "write_output" } }

PromptEmpty ==
    prompt_file.exists /\ prompt_file.readable /\ StripIsEmpty(prompt_file.content)

\* C7: the run ends with a non-zero status and an error line on stderr
\* exactly when the prompt is empty or some step raised, and with status
\* zero otherwise; a run with an empty prompt ends before any file is
\* processed and before any remote call.
C7_ExitStatus ==
    /\ pc # "exited" => exit_code = None
    /\ pc = "exited" =>
         /\ exit_code \in { "0", "1", "2" }
         /\ exit_code # "0" <=> (PromptEmpty \/ raised # None)
         /\ exit_code # "0" => (Len(stderr) > 0 /\ stderr[Len(stderr)] \in ErrorLines)
         /\ exit_code = "0" => \A k \in 1..Len(stderr) : stderr[k] \notin ErrorLines
    /\ PromptEmpty => (idx = 1 /\ file_blocks = << >> /\ request = << >> /\ calls = 0)

C7_Witness ==
    /\ pc = "exited"
    /\ exit_code = "1"
    /\ raised = "invoke_model"
    /\ calls = 1

\* C8: the remote call is made at most once and only after the prompt was
\* loaded and every file was processed; nothing is written to the output
\* directory or to stdout before the call has returned a response, and a
\* run whose call fails produces no output.
C8_FixedOrder ==
    /\ calls <= 1
    /\ idx > 1 => (prompt = prompt_file.content /\ ~StripIsEmpty(prompt))
    /\ calls > 0 => (idx = Len(files) + 1 /\ request # << >> /\ ~StripIsEmpty(prompt))
    /\ (Len(stdout) > 0 \/ Written # {} \/ dir_created \/ returned) => (invoke_ok /\ calls = 1)
    /\ raised \in { "invoke_model", "parse_response" } =>
         (pc = "exited" /\ Len(stdout) = 0 /\ Written = {} /\ ~dir_created)

C8_Witness ==
    /\ pc = "exited"
    /\ raised = "invoke_model"
    /\ Len(files) = 2
    /\ Len(file_blocks) = 1
    /\ Len(stdout) = 0

====
